---- MODULE Spec2Model ----
(***************************************************************************)
(* Model of two Whitebox GAT plugin scripts:                               *)
(*   Scripts/RootMeanSquareError.py   (PluginTool.__init__, actionPerformed,*)
(*                                     execute, module body)               *)
(*   menu_extensions/ClearErrorLogs.py (module body)                       *)
(* The host (pluginHost, WhiteboxRaster, the log directory) is the         *)
(* environment: the rasters on disk, the cancel request, I/O failures and  *)
(* files that are in use are inputs.  Every call the scripts make on       *)
(* pluginHost is appended to hostLog in the order the code makes it.       *)
(***************************************************************************)
EXTENDS Integers, Sequences, FiniteSets

VARIABLES
    tool,               \* which script the host runs: "rmse" or "clear"
    pc,                 \* position in the script
    args,               \* the args global: None or a list of paths
    execArgs,           \* the args parameter of execute
    fileA, fileB,       \* the rasters behind args[0] and args[1] on disk
    rows, cols,         \* execute: locals read from inputraster1
    nodata1, nodata2,
    sumSquares, meanVerticalError, N,
    progress, oldprogress,
    row, col,
    cancel,             \* pluginHost.isRequestForOperationCancelSet()
    earlyCancel,        \* history: cancel was requested before the first row completed
    opened,             \* history: number of WhiteboxRaster objects constructed
    reads,              \* history: number of getValue calls made
    polls,              \* history: number of isRequestForOperationCancelSet calls
    rowsDone,           \* history: rows whose column loop has finished
    failure,            \* a throwable raised inside a host call: "none", "caught"
                        \* by `except Exception`, or "uncaught"
    hostLog,            \* history: the calls made on pluginHost, in order
    logDir,             \* ClearErrorLogs: names present in the log directory
    inUse,              \* ClearErrorLogs: files os.remove cannot delete
    listing,            \* ClearErrorLogs: what os.listdir returned
    files,              \* ClearErrorLogs: the list built from os.listdir
    fi                  \* ClearErrorLogs: index of the next element of files

rmseVars == <<args, execArgs, fileA, fileB, rows, cols, nodata1, nodata2, sumSquares,
              meanVerticalError, N, progress, oldprogress, row, col, cancel,
              earlyCancel, opened, reads, polls, rowsDone, failure>>
clearVars == <<logDir, inUse, listing, files, fi>>
vars == <<tool, pc, hostLog, rmseVars, clearVars>>

(***************************************************************************)
(* Bounds of the model.                                                    *)
(***************************************************************************)
\* the longest argument list the host passes
MaxArgs == 3
\* the largest number of cells of a raster whose contents are enumerated
MaxCells == 2
\* the rows of the one tall raster pair: more rows than there are percentages
TallRows == 102

(***************************************************************************)
(* Inputs: rasters as the host presents them.                              *)
(***************************************************************************)
CellValues == {0, 1, 2}
NoDataValues == {0, 2}

\* a raster has at least one row and one column
Shapes == {s \in (1..MaxCells) \X (1..MaxCells) : s[1] * s[2] <= MaxCells}

CellsOf(s) == (0..(s[1] - 1)) \X (0..(s[2] - 1))

\* a raster: its shape, its no-data value and its rows of cell values
Raster(s, nd, cells) == [nrows |-> s[1], ncols |-> s[2], nodata |-> nd, cell |-> cells]

RastersOfShape(s) ==
    {Raster(s, nd, cells) :
        nd \in NoDataValues, cells \in [1..s[1] -> [1..s[2] -> CellValues]]}

Filled(s, v) == Raster(s, 0, [i \in 1..s[1] |-> [j \in 1..s[2] |-> v]])

EqualShapedPairs ==
    UNION {RastersOfShape(s) \X RastersOfShape(s) : s \in Shapes}

MismatchedPairs ==
    {<<Filled(st[1], 1), Filled(st[2], 2)>> :
        st \in {x \in Shapes \X Shapes : x[1] # x[2]}}

TallPair == <<Filled(<<TallRows, 1>>, 1), Filled(<<TallRows, 1>>, 2)>>

Grid2x2(a, b, c, d) == <<<<a, b>>, <<c, d>>>>

\* The worked example: A = [[1,2],[3,4]], B = [[1,2],[3,5]], no no-data.
ScenarioA == Raster(<<2, 2>>, 0, Grid2x2(1, 2, 3, 4))
ScenarioB == Raster(<<2, 2>>, 0, Grid2x2(1, 2, 3, 5))

InputPairs ==
    EqualShapedPairs \cup MismatchedPairs \cup {TallPair, <<ScenarioA, ScenarioB>>}

\* args: None, or a list of n paths (a path is modelled by its position)
ArgList(n) == [isNone |-> FALSE, list |-> [i \in 1..n |-> i]]
ArgLists == {[isNone |-> TRUE, list |-> <<>>]} \cup {ArgList(n) : n \in 0..MaxArgs}

(***************************************************************************)
(* Host collaborators.                                                     *)
(***************************************************************************)
\* WhiteboxRaster.getValue: the cell, or the no-data value outside the grid.
getValue(r, i, j) ==
    IF i < r.nrows /\ j < r.ncols THEN r.cell[i + 1][j + 1] ELSE r.nodata

updateProgress(p) == [call |-> "updateProgress", percent |-> p]
resetProgress == [call |-> "updateProgressLabel", percent |-> 0]
showFeedback(m) == [call |-> "showFeedback", msg |-> m]
logException(m) == [call |-> "logException", msg |-> m]
returnData(s) == [call |-> "returnData", report |-> s]

IncorrectArgsMsg == "Incorrect number of arguments given to tool."
MismatchMsg == "The input images must have the same number of rows and columns"
CancelledMsg == "Operation cancelled"
ErrorMsg == "An error has occurred in Root Mean Square Error during operation. See log file for details."
NotSetMsg == "The arguments array has not been set."
AllDeletedMsg == "All log files have now been deleted including the active log files."

(***************************************************************************)
(* Pure helpers of execute.                                                *)
(***************************************************************************)
RECURSIVE IsqrtIn(_, _, _)
\* floor(sqrt(n)) by bisection on lo..hi, lo*lo <= n < (hi+1)*(hi+1)
IsqrtIn(n, lo, hi) ==
    IF lo = hi THEN lo
    ELSE LET mid == (lo + hi + 1) \div 2
         IN IF mid * mid <= n THEN IsqrtIn(n, mid, hi) ELSE IsqrtIn(n, lo, mid - 1)

\* n < 2^31, so the root is below 46341
Isqrt(n) == IsqrtIn(n, 0, IF n < 46340 THEN n ELSE 46340)

\* "{0:.3f}".format(num / den), den > 0, as an integer number of thousandths
\* (round to nearest; the inputs of the model produce no ties).
Format3(num, den) == (2000 * num + den) \div (2 * den)

\* "{0:.3f}".format(k * math.sqrt(num / den) / 1000) in thousandths, den > 0.
FormatSqrt3(k, num, den) == (Isqrt((4 * k * k * num) \div den) + 1) \div 2

\* lines 114-121: the text of the accuracy report
Report(f1, f2, ss, mve, n) ==
    [base |-> f1, comparison |-> f2,
     meanError |-> Format3(mve, n),
     rmse |-> FormatSqrt3(1000, ss, n),
     accuracy95 |-> FormatSqrt3(1960, ss, n)]

\* line 105: (int)(100.0 * row / (rows - 1)), rows # 1
Percent(r, nrows) == (100 * r) \div (nrows - 1)

\* a variant of line 106 that lets an equal percentage through
ShouldEmitOrEqual(p, old) == p >= old

\* line 106: the de-duplication test
ShouldEmit(p, old) == p > old

\* a variant of line 101 that tests both values against the first sentinel
IsValidFirstSentinel(z1, z2, nd1, nd2) == z1 # nd1 /\ z2 # nd1

\* line 101: the cell takes part in the statistics
IsValid(z1, z2, nd1, nd2) == z1 # nd1 /\ z2 # nd2

\* line 85: the two shapes differ
Mismatch(r, c, r2, c2) == r # r2 \/ c # c2

\* a variant of line 71 that only rejects too few arguments
WrongArgCountTooFew(a) == Len(a) < 2

\* line 71: the argument list has the wrong length
WrongArgCount(a) == Len(a) # 2

(***************************************************************************)
(* Initial states.                                                         *)
(***************************************************************************)
InitRmse ==
    /\ tool = "rmse"
    /\ pc = "script"
    /\ args \in ArgLists
    /\ execArgs = ArgList(0)
    /\ \E p \in InputPairs : fileA = p[1] /\ fileB = p[2]
    /\ rows = 0 /\ cols = 0 /\ nodata1 = 0 /\ nodata2 = 0
    /\ sumSquares = 0 /\ meanVerticalError = 0 /\ N = 0
    /\ progress = -1 /\ oldprogress = -1
    /\ row = 0 /\ col = 0
    /\ cancel = FALSE /\ earlyCancel = FALSE
    /\ opened = 0 /\ reads = 0 /\ polls = 0 /\ rowsDone = 0
    /\ failure = "none"
    /\ hostLog = <<>>
    /\ logDir = {} /\ inUse = {} /\ listing = {} /\ files = <<>> /\ fi = 1

(***************************************************************************)
(* RootMeanSquareError.py                                                  *)
(***************************************************************************)
Say(c) == hostLog' = Append(hostLog, c)

\* lines 136-139: the module body
ScriptBody ==
    /\ tool = "rmse" /\ pc = "script"
    /\ IF args.isNone
       THEN Say(showFeedback(NotSetMsg)) /\ pc' = "done"
       ELSE pc' = "init" /\ UNCHANGED hostLog
    /\ UNCHANGED <<tool, rmseVars, clearVars>>

\* lines 35-59: PluginTool.__init__
PluginToolInit ==
    /\ tool = "rmse" /\ pc = "init"
    /\ IF Len(args.list) # 0
       THEN pc' = "execute" /\ execArgs' = args
       ELSE pc' = "dialog" /\ UNCHANGED execArgs
    /\ UNCHANGED <<tool, hostLog, args, fileA, fileB, rows, cols, nodata1, nodata2,
                   sumSquares, meanVerticalError, N, progress, oldprogress, row,
                   col, cancel, earlyCancel, opened, reads, polls, rowsDone,
                   failure, clearVars>>

\* lines 61-65: the dialog's ok button; collectParameters returns the two
\* file parameters the dialog was built with
actionPerformed ==
    /\ tool = "rmse" /\ pc = "dialog"
    /\ execArgs' = ArgList(2)
    /\ pc' = "execute"
    /\ UNCHANGED <<tool, hostLog, args, fileA, fileB, rows, cols, nodata1, nodata2,
                   sumSquares, meanVerticalError, N, progress, oldprogress, row,
                   col, cancel, earlyCancel, opened, reads, polls, rowsDone,
                   failure, clearVars>>

\* a variant of lines 70-73 whose early return leaves before the try block,
\* so the finally block does not run
ExecuteCheckArgsOutsideTry ==
    /\ tool = "rmse" /\ pc = "execute"
    /\ IF WrongArgCount(execArgs.list)
       THEN Say(showFeedback(IncorrectArgsMsg)) /\ pc' = "done"
       ELSE pc' = "open1" /\ UNCHANGED hostLog
    /\ UNCHANGED <<tool, rmseVars, clearVars>>

\* lines 70-73
ExecuteCheckArgs ==
    /\ tool = "rmse" /\ pc = "execute"
    /\ IF WrongArgCount(execArgs.list)
       THEN Say(showFeedback(IncorrectArgsMsg)) /\ pc' = "finally"
       ELSE pc' = "open1" /\ UNCHANGED hostLog
    /\ UNCHANGED <<tool, rmseVars, clearVars>>

\* A failure inside a host call (a Java throwable): `except Exception` on line
\* 126 catches it or lets it pass, depending on the interpreter; the finally
\* block runs either way.
HostFailure ==
    \E caught \in BOOLEAN :
        /\ pc' = IF caught THEN "except" ELSE "finally"
        /\ failure' = IF caught THEN "caught" ELSE "uncaught"

\* lines 79-82
OpenRaster1 ==
    /\ tool = "rmse" /\ pc = "open1"
    /\ \/ /\ opened' = opened + 1
          /\ rows' = fileA.nrows /\ cols' = fileA.ncols /\ nodata1' = fileA.nodata
          /\ pc' = "open2"
          /\ UNCHANGED failure
       \/ /\ HostFailure
          /\ UNCHANGED <<opened, rows, cols, nodata1>>
    /\ UNCHANGED <<tool, hostLog, args, execArgs, fileA, fileB, nodata2,
                   sumSquares, meanVerticalError, N, progress, oldprogress, row,
                   col, cancel, earlyCancel, reads, polls, rowsDone, clearVars>>

\* lines 84-96
OpenRaster2 ==
    /\ tool = "rmse" /\ pc = "open2"
    /\ \/ /\ opened' = opened + 1
          /\ IF Mismatch(rows, cols, fileB.nrows, fileB.ncols)
             THEN Say(showFeedback(MismatchMsg))
             ELSE UNCHANGED hostLog
          /\ nodata2' = fileB.nodata
          /\ sumSquares' = 0 /\ meanVerticalError' = 0 /\ N' = 0
          /\ progress' = -1 /\ oldprogress' = -1
          /\ row' = 0 /\ col' = 0
          /\ pc' = "loop"
          /\ UNCHANGED failure
       \/ /\ HostFailure
          /\ UNCHANGED <<opened, hostLog, nodata2, sumSquares, meanVerticalError,
                         N, progress, oldprogress, row, col>>
    /\ UNCHANGED <<tool, args, execArgs, fileA, fileB, rows, cols, nodata1,
                   cancel, earlyCancel, reads, polls, rowsDone, clearVars>>

\* lines 98-104: one iteration of the column loop
ReadCell ==
    /\ tool = "rmse" /\ pc = "loop" /\ row < rows /\ col < cols
    /\ \/ LET z1 == getValue(fileA, row, col)
              z2 == getValue(fileB, row, col)
          IN /\ reads' = reads + 2
             /\ IF IsValid(z1, z2, nodata1, nodata2)
                THEN /\ sumSquares' = sumSquares + (z2 - z1) * (z2 - z1)
                     /\ meanVerticalError' = meanVerticalError + (z2 - z1)
                     /\ N' = N + 1
                ELSE UNCHANGED <<sumSquares, meanVerticalError, N>>
             /\ col' = col + 1
             /\ UNCHANGED <<pc, failure>>
       \/ \* the first or the second getValue call raises
          /\ HostFailure
          /\ \E k \in {1, 2} : reads' = reads + k
          /\ UNCHANGED <<sumSquares, meanVerticalError, N, col>>
    /\ UNCHANGED <<tool, hostLog, args, execArgs, fileA, fileB, rows, cols,
                   nodata1, nodata2, progress, oldprogress, row, cancel,
                   earlyCancel, opened, polls, rowsDone, clearVars>>

\* lines 105-108: after the last column of a row
EndRow ==
    /\ tool = "rmse" /\ pc = "loop" /\ row < rows /\ col = cols
    /\ rowsDone' = rowsDone + 1
    /\ IF rows - 1 = 0
       THEN \* ZeroDivisionError: float division
            /\ pc' = "except"
            /\ UNCHANGED <<progress, oldprogress, hostLog>>
       ELSE /\ progress' = Percent(row, rows)
            /\ IF ShouldEmit(progress', oldprogress)
               THEN oldprogress' = progress' /\ Say(updateProgress(progress'))
               ELSE UNCHANGED <<oldprogress, hostLog>>
            /\ pc' = "poll"
    /\ UNCHANGED <<tool, args, execArgs, fileA, fileB, rows, cols, nodata1,
                   nodata2, sumSquares, meanVerticalError, N, row, col, cancel,
                   earlyCancel, opened, reads, polls, failure, clearVars>>

\* a variant of lines 109-111 without the return (as after line 86)
PollCancelNoReturn ==
    /\ tool = "rmse" /\ pc = "poll"
    /\ polls' = polls + 1
    /\ IF cancel THEN Say(showFeedback(CancelledMsg)) ELSE UNCHANGED hostLog
    /\ row' = row + 1 /\ col' = 0
    /\ pc' = "loop"
    /\ UNCHANGED <<tool, args, execArgs, fileA, fileB, rows, cols, nodata1,
                   nodata2, sumSquares, meanVerticalError, N, progress,
                   oldprogress, cancel, earlyCancel, opened, reads, rowsDone,
                   failure, clearVars>>

\* lines 109-111, and the step of the row loop
PollCancel ==
    /\ tool = "rmse" /\ pc = "poll"
    /\ polls' = polls + 1
    /\ IF cancel
       THEN /\ Say(showFeedback(CancelledMsg))
            /\ pc' = "finally"
            /\ UNCHANGED <<row, col>>
       ELSE /\ row' = row + 1 /\ col' = 0
            /\ pc' = "loop"
            /\ UNCHANGED hostLog
    /\ UNCHANGED <<tool, args, execArgs, fileA, fileB, rows, cols, nodata1,
                   nodata2, sumSquares, meanVerticalError, N, progress,
                   oldprogress, cancel, earlyCancel, opened, reads, rowsDone,
                   failure, clearVars>>

\* lines 114-124: after the row loop
Finish ==
    /\ tool = "rmse" /\ pc = "loop" /\ row >= rows
    /\ IF N = 0
       THEN \* ZeroDivisionError: float division
            /\ pc' = "except"
            /\ UNCHANGED hostLog
       ELSE /\ Say(returnData(Report(execArgs.list[1], execArgs.list[2], sumSquares,
                                     meanVerticalError, N)))
            /\ pc' = "finally"
    /\ UNCHANGED <<tool, rmseVars, clearVars>>

\* lines 126-131
ExceptHandler ==
    /\ tool = "rmse" /\ pc = "except"
    /\ hostLog' = hostLog \o <<logException("Error in Root Mean Square Error"),
                               showFeedback(ErrorMsg)>>
    /\ pc' = "finally"
    /\ UNCHANGED <<tool, rmseVars, clearVars>>

\* lines 132-134
Finally ==
    /\ tool = "rmse" /\ pc = "finally"
    /\ Say(resetProgress)
    /\ pc' = "done"
    /\ UNCHANGED <<tool, rmseVars, clearVars>>

Running == pc \in {"execute", "open1", "open2", "loop", "poll", "except", "finally"}

\* the user presses the host's cancel button while the tool runs
RequestCancel ==
    /\ tool = "rmse" /\ Running /\ ~cancel
    /\ cancel' = TRUE
    /\ earlyCancel' = (rowsDone = 0)
    /\ UNCHANGED <<tool, pc, hostLog, args, execArgs, fileA, fileB, rows, cols,
                   nodata1, nodata2, sumSquares, meanVerticalError, N, progress,
                   oldprogress, row, col, opened, reads, polls, rowsDone,
                   failure, clearVars>>

(***************************************************************************)
(* ClearErrorLogs.py.  A file name is the sequence of its characters.      *)
(***************************************************************************)
XmlSuffix == <<".", "x", "m", "l">>

LogNames ==
    { <<"a", ".", "x", "m", "l">>,
      <<"b", ".", "x", "m", "l">>,
      <<"x", "m", "l">>,
      <<"c", ".", "t", "x", "t">>,
      <<"d", ".", "x", "m", "l", ".", "1">> }

\* str.endswith
endswith(name, suffix) ==
    /\ Len(name) >= Len(suffix)
    /\ SubSeq(name, Len(name) - Len(suffix) + 1, Len(name)) = suffix

\* the orders in which a list can hold the elements of S
Orderings(S) ==
    {f \in [1..Cardinality(S) -> S] : \A i, j \in DOMAIN f : f[i] = f[j] => i = j}

InitClear ==
    /\ tool = "clear"
    /\ pc = "list"
    /\ logDir \in SUBSET LogNames
    /\ inUse \in SUBSET logDir
    /\ listing = {} /\ files = <<>> /\ fi = 1
    /\ hostLog = <<>>
    /\ args = ArgList(0) /\ execArgs = ArgList(0)
    /\ fileA = Filled(<<1, 1>>, 0) /\ fileB = Filled(<<1, 1>>, 0)
    /\ rows = 0 /\ cols = 0 /\ nodata1 = 0 /\ nodata2 = 0
    /\ sumSquares = 0 /\ meanVerticalError = 0 /\ N = 0
    /\ progress = -1 /\ oldprogress = -1
    /\ row = 0 /\ col = 0
    /\ cancel = FALSE /\ earlyCancel = FALSE
    /\ opened = 0 /\ reads = 0 /\ polls = 0 /\ rowsDone = 0
    /\ failure = "none"

\* lines 12-17: list the directory and keep the names ending in .xml
ListLogs ==
    /\ tool = "clear" /\ pc = "list"
    /\ \/ /\ listing' = logDir
          /\ files' \in Orderings({f \in logDir : endswith(f, XmlSuffix)})
          /\ pc' = "remove"
       \/ \* getLogDirectory or os.listdir raises
          /\ pc' = "clear_except"
          /\ UNCHANGED <<listing, files>>
    /\ UNCHANGED <<tool, hostLog, rmseVars, logDir, inUse, fi>>

\* lines 19-23: one iteration of the removal loop; a failing os.remove is
\* swallowed by the bare except
RemoveFile ==
    /\ tool = "clear" /\ pc = "remove" /\ fi <= Len(files)
    /\ logDir' = IF files[fi] \in inUse THEN logDir ELSE logDir \ {files[fi]}
    /\ fi' = fi + 1
    /\ UNCHANGED <<tool, pc, hostLog, rmseVars, inUse, listing, files>>

\* lines 25-29
ShowDeleted ==
    /\ tool = "clear" /\ pc = "remove" /\ fi > Len(files)
    /\ Say(showFeedback(AllDeletedMsg))
    /\ pc' = "done"
    /\ UNCHANGED <<tool, rmseVars, clearVars>>

\* lines 31-35
ClearExcept ==
    /\ tool = "clear" /\ pc = "clear_except"
    /\ hostLog' = hostLog \o <<logException("Error in ViewErrorLogs"),
                               showFeedback("Error: ")>>
    /\ pc' = "done"
    /\ UNCHANGED <<tool, rmseVars, clearVars>>

Init == InitRmse \/ InitClear

Next ==
    \/ ScriptBody
    \/ PluginToolInit
    \/ actionPerformed
    \/ ExecuteCheckArgs
    \/ OpenRaster1
    \/ OpenRaster2
    \/ ReadCell
    \/ EndRow
    \/ PollCancel
    \/ Finish
    \/ ExceptHandler
    \/ Finally
    \/ RequestCancel
    \/ ListLogs
    \/ RemoveFile
    \/ ShowDeleted
    \/ ClearExcept

Spec == Init /\ [][Next]_vars

(***************************************************************************)
(* Reading the host log.                                                   *)
(***************************************************************************)
IsPercent(e) == e.call = "updateProgress"
IsProgressCall(e) == e.call \in {"updateProgress", "updateProgressLabel"}

\* the percentages the row loop passed to the host, in order
Percentages == SelectSeq(hostLog, IsPercent)

\* every progress notification, the reset included
ProgressCalls == SelectSeq(hostLog, IsProgressCall)

Called(c) == \E i \in DOMAIN hostLog : hostLog[i].call = c

HasFeedback(m) ==
    \E i \in DOMAIN hostLog : hostLog[i].call = "showFeedback" /\ hostLog[i].msg = m

EqualShaped == fileA.nrows = fileB.nrows /\ fileA.ncols = fileB.ncols

\* every getValue call of the rows finished so far returned
ReadAllRowsDone == reads = 2 * cols * rowsDone

(***************************************************************************)
(* Reference statistics, computed from the rasters on disk.                *)
(***************************************************************************)
RECURSIVE SumOver(_, _)
SumOver(S, g) ==
    IF S = {} THEN 0
    ELSE LET c == CHOOSE x \in S : TRUE IN g[c] + SumOver(S \ {c}, g)

GridCells == CellsOf(<<fileA.nrows, fileA.ncols>>)

\* the value a raster on disk holds at row c[1], column c[2] (from 0)
At(r, c) == r.cell[c[1] + 1][c[2] + 1]

ValidCells ==
    {c \in GridCells : At(fileA, c) # fileA.nodata /\ At(fileB, c) # fileB.nodata}

\* the cells the row-major sweep has passed
Visited == {c \in GridCells : c[1] < row \/ (c[1] = row /\ c[2] < col)}

Diff == [c \in GridCells |-> At(fileB, c) - At(fileA, c)]
SquaredDiff == [c \in GridCells |-> Diff[c] * Diff[c]]

(***************************************************************************)
(* C1: when the two rasters differ in rows or columns, execute reports the *)
(* mismatch and stops at once: no getValue call, no percentage from the    *)
(* row loop, no report passed to returnData.                               *)
(***************************************************************************)
C1_MismatchStopsAtOnce ==
    (tool = "rmse" /\ HasFeedback(MismatchMsg)) =>
        /\ reads = 0
        /\ Percentages = <<>>
        /\ ~Called("returnData")

(***************************************************************************)
(* C2: every invocation of execute ends with the progress reset as its     *)
(* last host notification, on every exit path; the reset is made nowhere   *)
(* else.                                                                   *)
(***************************************************************************)
C2_ResetIsLast ==
    tool = "rmse" =>
        /\ (pc = "done" /\ ~args.isNone) =>
               /\ Len(hostLog) > 0
               /\ hostLog[Len(hostLog)].call = "updateProgressLabel"
               /\ hostLog[Len(hostLog)].percent = 0
        /\ \A i \in DOMAIN hostLog :
               hostLog[i].call = "updateProgressLabel" =>
                   i = Len(hostLog) /\ pc = "done"

\* execute has ended through the exception handler, and the reset followed
C2_Witness ==
    /\ tool = "rmse" /\ pc = "done"
    /\ Called("logException")
    /\ hostLog[Len(hostLog)].call = "updateProgressLabel"

(***************************************************************************)
(* C3: cancellation is polled once after every completed row; when the     *)
(* poll after row r finds the request set, no cell of a later row is read, *)
(* "Operation cancelled" is shown, no report is returned and no exception  *)
(* is logged.                                                              *)
(***************************************************************************)
C3_PolledAfterEveryRow ==
    (tool = "rmse" /\ EqualShaped) => polls = IF pc = "poll" THEN rowsDone - 1 ELSE rowsDone

C3_CancelStops ==
    /\ (tool = "rmse" /\ HasFeedback(CancelledMsg)) =>
           /\ pc \in {"finally", "done"}
           /\ ReadAllRowsDone
           /\ ~Called("returnData")
           /\ ~Called("logException")
    \* a request made before a poll never survives that poll
    /\ (tool = "rmse" /\ earlyCancel /\ polls > 0) => HasFeedback(CancelledMsg)

C3_CancelPolledEveryRow == C3_PolledAfterEveryRow /\ C3_CancelStops

(***************************************************************************)
(* C4: the percentages the row loop passes to the host are strictly        *)
(* increasing and each lies in 0..100.                                     *)
(***************************************************************************)
C4_PercentagesIncrease ==
    LET p == Percentages
    IN \A i \in DOMAIN p :
           /\ p[i].percent \in 0..100
           /\ i > 1 => p[i - 1].percent < p[i].percent

\* the last row of a raster with more rows than percentages: some rows
\* computed a percentage that was not emitted again
C4_Witness ==
    /\ tool = "rmse" /\ pc = "poll"
    /\ progress = 100
    /\ Len(Percentages) > 2
    /\ Len(Percentages) < rowsDone

(***************************************************************************)
(* C5: a completed pass over two equal-shaped grids with no valid cell     *)
(* ends with an explicit outcome of its own: the division by the zero      *)
(* count is not performed and no exception is logged.                      *)
(***************************************************************************)
C5_NoValidCellsIsNotAFailure ==
    (tool = "rmse" /\ opened = 2 /\ EqualShaped /\ failure = "none"
        /\ row >= rows /\ N = 0) =>
        /\ pc # "except"
        /\ ~Called("logException")

(***************************************************************************)
(* C6: during and after the pass over two equal-shaped grids the           *)
(* accumulators equal the reference sums over the visited cells where      *)
(* neither value is its grid's no-data value; cells with a no-data value   *)
(* contribute nothing.  For A = [[1,2],[3,4]] and B = [[1,2],[3,5]] the    *)
(* full pass gives sumSquares = 1, N = 4 and the report shows a mean error *)
(* of 0.250 and an RMSE of 0.500.                                          *)
(***************************************************************************)
C6_AccumulatorsMatchReference ==
    (tool = "rmse" /\ opened = 2 /\ EqualShaped) =>
        /\ pc \in {"loop", "poll"} =>
               LET V == ValidCells \cap Visited
               IN /\ N = Cardinality(V)
                  /\ meanVerticalError = SumOver(V, Diff)
                  /\ sumSquares = SumOver(V, SquaredDiff)
        /\ (pc = "loop" /\ row >= rows) =>
               /\ N = Cardinality(ValidCells)
               /\ meanVerticalError = SumOver(ValidCells, Diff)
               /\ sumSquares = SumOver(ValidCells, SquaredDiff)
        /\ (fileA = ScenarioA /\ fileB = ScenarioB /\ pc = "loop" /\ row >= rows) =>
               sumSquares = 1 /\ N = 4
        /\ (fileA = ScenarioA /\ fileB = ScenarioB) =>
               \A i \in DOMAIN hostLog :
                   hostLog[i].call = "returnData" =>
                       /\ hostLog[i].report.meanError = 250
                       /\ hostLog[i].report.rmse = 500

\* the worked example has been compared and its report returned
C6_Witness ==
    /\ tool = "rmse" /\ pc = "done"
    /\ fileA = ScenarioA /\ fileB = ScenarioB
    /\ N = 4 /\ sumSquares = 1
    /\ Called("returnData")

(***************************************************************************)
(* C7: for two one-row grids the percentage after the row is 100, it is    *)
(* emitted, and the comparison goes on to its normal result (a report when *)
(* there is a valid cell).                                                 *)
(***************************************************************************)
C7_OneRowReaches100 ==
    (tool = "rmse" /\ pc = "done" /\ opened = 2 /\ failure = "none"
        /\ fileA.nrows = 1 /\ fileB.nrows = 1 /\ fileA.ncols = fileB.ncols) =>
        /\ \E i \in DOMAIN hostLog :
               hostLog[i].call = "updateProgress" /\ hostLog[i].percent = 100
        /\ (N > 0 /\ ~HasFeedback(CancelledMsg)) => Called("returnData")

(***************************************************************************)
(* C8 as stated: for every argument count other than two the tool ends     *)
(* with the "Incorrect number of arguments" feedback, opens no raster,     *)
(* returns no report and logs no exception.                                *)
(***************************************************************************)
C8_EveryOtherCountIsRejected ==
    (tool = "rmse" /\ ~args.isNone /\ Len(args.list) # 2) =>
        /\ opened = 0
        /\ ~Called("returnData")
        /\ ~Called("logException")
        /\ pc \in {"dialog", "done"} => HasFeedback(IncorrectArgsMsg)

(***************************************************************************)
(* C8 amended: execute compares only when it receives exactly two          *)
(* arguments; for every argument count other than zero and two the tool    *)
(* ends with the "Incorrect number of arguments" feedback, opens no        *)
(* raster, returns no report and logs no exception; with an empty argument *)
(* list the constructor builds the parameter dialog and that feedback is   *)
(* not shown.                                                              *)
(***************************************************************************)
C8_NonEmptyOtherCountIsRejected ==
    tool = "rmse" =>
        /\ (~args.isNone /\ Len(args.list) \notin {0, 2}) =>
               /\ opened = 0
               /\ ~Called("returnData")
               /\ ~Called("logException")
               /\ pc = "done" => HasFeedback(IncorrectArgsMsg)
        /\ opened > 0 => Len(execArgs.list) = 2
        /\ (~args.isNone /\ Len(args.list) = 0) =>
               /\ ~HasFeedback(IncorrectArgsMsg)
               /\ pc \notin {"script", "init", "dialog"} => execArgs = ArgList(2)

\* a run with three arguments has ended with the feedback
C8_Witness ==
    /\ tool = "rmse" /\ pc = "done"
    /\ Len(args.list) > 2
    /\ HasFeedback(IncorrectArgsMsg)

C10_FeedbackMeansDeleted ==
    tool = "clear" =>
        /\ HasFeedback(AllDeletedMsg) =>
               \A f \in listing : endswith(f, XmlSuffix) => f \notin logDir
        /\ (pc # "list" /\ pc # "clear_except") =>
               \A f \in listing : ~endswith(f, XmlSuffix) => f \in logDir
====
